---- MODULE Spec2Model ----
(***************************************************************************)
(* Mergington High School activities API (src/src/app.py): the in-memory   *)
(* activity directory, the schedule parser, the overlap checker and the    *)
(* signup handler.                                                         *)
(*                                                                         *)
(* Text is modelled as a sequence of one-character strings, so that        *)
(* str.split, str.strip, re.match and datetime.strptime are computed on    *)
(* the characters of the schedule text, as the code computes them.         *)
(* A time of day (datetime.time with seconds 0) is the number of minutes   *)
(* since midnight; the order of datetime.time values is the order of       *)
(* these numbers.                                                          *)
(***************************************************************************)
EXTENDS Integers, Sequences, FiniteSets, TLC

VARIABLES
  activities,   \* the module-level dict `activities`: name -> record
  request,      \* the signup request handled last (activity_name, email)
  response,     \* the HTTP response to it (status code and detail/message)
  serial,       \* TRUE: the server handles one request at a time
  wpc,          \* per worker thread: "idle" or "append" (guards passed, line 170 next)
  wreq,         \* per worker thread: the request it is handling
  schedule1,    \* argument schedule1 / schedule_str of the functions under test
  schedule2,    \* argument schedule2
  shape1,       \* how schedule1 was written: its days, joiner and times
  slots1,       \* the outcome of parse_schedule(schedule1)
  slots2,       \* the outcome of parse_schedule(schedule2)
  collides12,   \* the outcome of schedules_collide(schedule1, schedule2)
  collides11,   \* the outcome of schedules_collide(schedule1, schedule1)
  ppc           \* position of the function-level run: "start", "parsed", "done"

vars == <<activities, request, response, serial, wpc, wreq,
          schedule1, schedule2, shape1, slots1, slots2, collides12, collides11, ppc>>

dirVars == <<activities, request, response>>
workerVars == <<serial, wpc, wreq>>
funVars == <<schedule1, schedule2, shape1, slots1, slots2, collides12, collides11, ppc>>

----------------------------------------------------------------------------
(* Bounds of the model. *)

\* Main specification: at most this many emails are appended in one run.
MaxSignups == 2
\* Capacity specification: the number of new students that may sign up.
NumNew == 9
\* Concurrent specification: at most this many appends in one run.
MaxRaceSignups == 4
\* Function-level specification: the longest day list of an input schedule.
MaxDays == 3

----------------------------------------------------------------------------
(* Text constants. *)

CommaSpace == <<",", " ">>
Comma == <<",">>
AndSep == <<" ", "a", "n", "d", " ">>
DashSep == <<" ", "-", " ">>
AM == <<"A", "M">>
PM == <<"P", "M">>
Digits == <<"0", "1", "2", "3", "4", "5", "6", "7", "8", "9">>
Mondays == <<"M","o","n","d","a","y","s">>
Monday == <<"M","o","n","d","a","y">>
Tuesdays == <<"T","u","e","s","d","a","y","s">>
Tuesday == <<"T","u","e","s","d","a","y">>
Wednesdays == <<"W","e","d","n","e","s","d","a","y","s">>
Wednesday == <<"W","e","d","n","e","s","d","a","y">>
Thursdays == <<"T","h","u","r","s","d","a","y","s">>
Thursday == <<"T","h","u","r","s","d","a","y">>
Fridays == <<"F","r","i","d","a","y","s">>
Friday == <<"F","r","i","d","a","y">>
Saturdays == <<"S","a","t","u","r","d","a","y","s">>
Saturday == <<"S","a","t","u","r","d","a","y">>
Sundays == <<"S","u","n","d","a","y","s">>
Sunday == <<"S","u","n","d","a","y">>
Fundays == <<"F","u","n","d","a","y","s">>

(* The schedule texts of the seed directory. *)
\* "Wednesdays, 4:00 PM - 6:00 PM"
ScheduleBasketball ==
  <<"W","e","d","n","e","s","d","a","y","s",","," ","4",":","0","0"," ","P","M"," ","-"," ","6",":","0","0"," ","P","M">>
\* "Saturdays, 10:00 AM - 12:00 PM"
ScheduleSoccer ==
  <<"S","a","t","u","r","d","a","y","s",","," ","1","0",":","0","0"," ","A","M"," ","-"," ","1","2",":","0","0"," ","P","M">>
\* "Thursdays, 3:30 PM - 5:00 PM"
ScheduleArt ==
  <<"T","h","u","r","s","d","a","y","s",","," ","3",":","3","0"," ","P","M"," ","-"," ","5",":","0","0"," ","P","M">>
\* "Mondays, 4:00 PM - 5:30 PM"
ScheduleDrama ==
  <<"M","o","n","d","a","y","s",","," ","4",":","0","0"," ","P","M"," ","-"," ","5",":","3","0"," ","P","M">>
\* "Tuesdays, 4:00 PM - 5:30 PM"
ScheduleDebate ==
  <<"T","u","e","s","d","a","y","s",","," ","4",":","0","0"," ","P","M"," ","-"," ","5",":","3","0"," ","P","M">>
\* "Fridays, 2:00 PM - 3:30 PM"
ScheduleMath ==
  <<"F","r","i","d","a","y","s",","," ","2",":","0","0"," ","P","M"," ","-"," ","3",":","3","0"," ","P","M">>
\* "Fridays, 3:30 PM - 5:00 PM"
ScheduleChess ==
  <<"F","r","i","d","a","y","s",","," ","3",":","3","0"," ","P","M"," ","-"," ","5",":","0","0"," ","P","M">>
\* "Tuesdays and Thursdays, 3:30 PM - 4:30 PM"
ScheduleProgramming ==
  <<"T","u","e","s","d","a","y","s"," ","a","n","d"," ","T","h","u","r","s","d","a","y","s",","," ","3",":","3","0"," ","P","M"," ","-"," ","4",":","3","0"," ","P","M">>
\* "Mondays, Wednesdays, Fridays, 2:00 PM - 3:00 PM"
ScheduleGym ==
  <<"M","o","n","d","a","y","s",","," ","W","e","d","n","e","s","d","a","y","s",","," ","F","r","i","d","a","y","s",","," ","2",":","0","0"," ","P","M"," ","-"," ","3",":","0","0"," ","P","M">>

\* The keys of `activities`, in the dict's insertion order (the order
\* activities.items() iterates in).
ActivityOrder ==
  << "Basketball Team",
     "Soccer Club",
     "Art Workshop",
     "Drama Club",
     "Debate Team",
     "Math Club",
     "Chess Club",
     "Programming Class",
     "Gym Class" >>

\* The seed directory.
SeedActivities ==
  [n \in {ActivityOrder[i] : i \in 1..Len(ActivityOrder)} |->
     CASE n = "Basketball Team" ->
            [description |-> "Join the school basketball team and compete in local leagues",
             schedule |-> ScheduleBasketball,
             max_participants |-> 15,
             participants |-> << "alex@mergington.edu", "jordan@mergington.edu" >>]
       [] n = "Soccer Club" ->
            [description |-> "Practice soccer skills and play friendly matches",
             schedule |-> ScheduleSoccer,
             max_participants |-> 20,
             participants |-> << "lucas@mergington.edu", "mia@mergington.edu" >>]
       [] n = "Art Workshop" ->
            [description |-> "Explore painting, drawing, and sculpture techniques",
             schedule |-> ScheduleArt,
             max_participants |-> 10,
             participants |-> << "ava@mergington.edu", "liam@mergington.edu" >>]
       [] n = "Drama Club" ->
            [description |-> "Act, direct, and produce school plays and performances",
             schedule |-> ScheduleDrama,
             max_participants |-> 18,
             participants |-> << "ella@mergington.edu", "noah@mergington.edu" >>]
       [] n = "Debate Team" ->
            [description |-> "Develop public speaking and argumentation skills",
             schedule |-> ScheduleDebate,
             max_participants |-> 12,
             participants |-> << "oliver@mergington.edu", "isabella@mergington.edu" >>]
       [] n = "Math Club" ->
            [description |-> "Solve challenging math problems and prepare for competitions",
             schedule |-> ScheduleMath,
             max_participants |-> 16,
             participants |-> << "ethan@mergington.edu", "charlotte@mergington.edu" >>]
       [] n = "Chess Club" ->
            [description |-> "Learn strategies and compete in chess tournaments",
             schedule |-> ScheduleChess,
             max_participants |-> 12,
             participants |-> << "michael@mergington.edu", "daniel@mergington.edu" >>]
       [] n = "Programming Class" ->
            [description |-> "Learn programming fundamentals and build software projects",
             schedule |-> ScheduleProgramming,
             max_participants |-> 20,
             participants |-> << "emma@mergington.edu", "sophia@mergington.edu" >>]
       [] n = "Gym Class" ->
            [description |-> "Physical education and sports activities",
             schedule |-> ScheduleGym,
             max_participants |-> 30,
             participants |-> << "john@mergington.edu", "olivia@mergington.edu" >>]
  ]

----------------------------------------------------------------------------
(* Python's string operations, on sequences of characters. *)

\* The character at position i (1-based), or "" past either end.
CharAt(s, i) ==
  IF i \in 1..Len(s) THEN s[i] ELSE ""

IsDigit(c) ==
  \E k \in 1..Len(Digits) : Digits[k] = c

\* int() of one digit character.
DigitVal(c) ==
  (CHOOSE k \in 1..Len(Digits) : Digits[k] = c) - 1

\* Whether sep occurs in s at position i.
OccursAt(s, sep, i) ==
  /\ i + Len(sep) - 1 <= Len(s)
  /\ SubSeq(s, i, i + Len(sep) - 1) = sep

\* str.split(sep), scanning from position i with the current part open at
\* `from`: each occurrence of sep, left to right and without overlap, ends a part.
RECURSIVE split_from(_, _, _, _)
split_from(s, sep, i, from) ==
  IF i > Len(s) THEN << SubSeq(s, from, Len(s)) >>
  ELSE IF OccursAt(s, sep, i)
       THEN << SubSeq(s, from, i - 1) >>
            \o split_from(s, sep, i + Len(sep), i + Len(sep))
       ELSE split_from(s, sep, i + 1, from)

\* s.split(sep) for a non-empty sep: always at least one part.
split(s, sep) ==
  split_from(s, sep, 1, 1)

\* s.strip(): leading and trailing spaces removed.
RECURSIVE strip(_)
strip(s) ==
  IF s = << >> THEN s
  ELSE IF Head(s) = " " THEN strip(Tail(s))
  ELSE IF s[Len(s)] = " " THEN strip(SubSeq(s, 1, Len(s) - 1))
  ELSE s

----------------------------------------------------------------------------
(* parse_schedule and what it calls. *)

\* days_map.get(day, day): the seven plural day names map to the singular,
\* any other text maps to itself.
days_map_get(day) ==
  CASE day = Mondays -> Monday
    [] day = Tuesdays -> Tuesday
    [] day = Wednesdays -> Wednesday
    [] day = Thursdays -> Thursday
    [] day = Fridays -> Friday
    [] day = Saturdays -> Saturday
    [] day = Sundays -> Sunday
    [] OTHER -> day

\* The number of characters \d{1,2} matches at position i of t when ":"
\* must follow: one digit or two, or 0 when neither fits.
hour_digits(t, i) ==
  IF IsDigit(CharAt(t, i)) /\ CharAt(t, i + 1) = ":" THEN 1
  ELSE IF /\ IsDigit(CharAt(t, i))
          /\ IsDigit(CharAt(t, i + 1))
          /\ CharAt(t, i + 2) = ":" THEN 2
  ELSE 0

\* Whether \d{2} [APM]{2} matches at position j of t.
minute_marker_at(t, j) ==
  /\ IsDigit(CharAt(t, j))
  /\ IsDigit(CharAt(t, j + 1))
  /\ CharAt(t, j + 2) = " "
  /\ CharAt(t, j + 3) \in {"A", "P", "M"}
  /\ CharAt(t, j + 4) \in {"A", "P", "M"}

token_len(t, i, hlen) ==
  IF hlen > 0 /\ minute_marker_at(t, i + hlen + 1) THEN hlen + 6 ELSE 0

\* The length of the match of \d{1,2}:\d{2} [APM]{2} at position i of t,
\* or 0 when there is none.
time_token_len(t, i) ==
  token_len(t, i, hour_digits(t, i))

NoMatch ==
  [matched |-> FALSE, groups |-> << >>]

\* The length of the second time of the range, after a first one of n1
\* characters and " - ".
second_token_len(t, n1) ==
  IF n1 > 0 /\ OccursAt(t, DashSep, n1 + 1)
  THEN time_token_len(t, n1 + Len(DashSep) + 1)
  ELSE 0

match_groups(t, n1, n2) ==
  IF n1 > 0 /\ n2 > 0
  THEN [matched |-> TRUE,
        groups |-> << SubSeq(t, 1, n1),
                      SubSeq(t, n1 + Len(DashSep) + 1, n1 + Len(DashSep) + n2) >>]
  ELSE NoMatch

match_after_first(t, n1) ==
  match_groups(t, n1, second_token_len(t, n1))

\* re.match(r"(\d{1,2}:\d{2} [APM]{2}) - (\d{1,2}:\d{2} [APM]{2})", t):
\* anchored at the start of t only; text after the match is ignored.
\* matched is whether there is a match, groups its two groups.
re_match_time_range(t) ==
  match_after_first(t, time_token_len(t, 1))

\* The hour of the day of hour h on the 12-hour clock with marker p:
\* 12 AM is 0, 12 PM is 12, any other PM hour is 12 later.
hour24(h, p) ==
  IF p = AM THEN (IF h = 12 THEN 0 ELSE h)
  ELSE (IF h = 12 THEN 12 ELSE h + 12)

\* %I accepts 1-9, 01-09 and 10-12, %M 00-59, %p AM or PM; anything else
\* raises ValueError.
to_time(h, m, p) ==
  IF h \in 1..12 /\ m \in 0..59 /\ p \in {AM, PM}
  THEN [raised |-> FALSE, time |-> hour24(h, p) * 60 + m]
  ELSE [raised |-> TRUE, time |-> 0]

strptime_fields(s, hlen) ==
  to_time(IF hlen = 1 THEN DigitVal(s[1])
          ELSE 10 * DigitVal(s[1]) + DigitVal(s[2]),
          10 * DigitVal(s[hlen + 2]) + DigitVal(s[hlen + 3]),
          SubSeq(s, hlen + 5, hlen + 6))

\* datetime.strptime(s, "%I:%M %p").time() for a text s of the shape the
\* regular expression matched (one or two digits, ":", two digits, a space,
\* two letters): raised is whether it raised ValueError, time the time of
\* day otherwise.
strptime_time(s) ==
  strptime_fields(s, IF CharAt(s, 2) = ":" THEN 1 ELSE 2)

\* [d.strip() for d in text.split(sep)]
strip_each(ps) ==
  [i \in 1..Len(ps) |-> strip(ps[i])]

split_strip(text, sep) ==
  strip_each(split(text, sep))

NoSlots ==
  [raised |-> FALSE, results |-> << >>]

\* Lines 115-116 and 126-127: one slot (day, start, end) per day, unless
\* one of the two strptime calls raised.
make_slots(day_list, start_dt, end_dt) ==
  IF start_dt.raised \/ end_dt.raised
  THEN [raised |-> TRUE, results |-> << >>]
  ELSE [raised |-> FALSE,
        results |-> [i \in 1..Len(day_list) |->
                       [day |-> days_map_get(day_list[i]),
                        start |-> start_dt.time,
                        end |-> end_dt.time]]]

\* Lines 112-116 and 123-127.
slots_for(day_list, groups) ==
  make_slots(day_list, strptime_time(groups[1]), strptime_time(groups[2]))

\* Lines 121-127: the branch for a comma-separated day list, which matches
\* parts[1] once more and takes its days from days_part.split(",").
fallback_with_match(parts, time_match) ==
  IF time_match.matched
  THEN slots_for(split_strip(parts[1], Comma), time_match.groups)
  ELSE NoSlots

\* Lines 117-127.
parse_fallback(parts) ==
  IF Len(parts) > 1
  THEN fallback_with_match(parts, re_match_time_range(parts[2]))
  ELSE NoSlots

\* Lines 111-127.
parse_with_match(parts, time_match) ==
  IF time_match.matched
  THEN slots_for(split_strip(parts[1], AndSep), time_match.groups)
  ELSE parse_fallback(parts)

\* Lines 105-127: days_part is parts[0], time_part is parts[1] or "".
parse_parts(parts) ==
  parse_with_match(parts,
                   re_match_time_range(IF Len(parts) > 1 THEN parts[2] ELSE << >>))

\* parse_schedule(schedule_str): raised is whether it raised ValueError,
\* results the list it returned otherwise.
parse_schedule(schedule_str) ==
  parse_parts(split(schedule_str, CommaSpace))

----------------------------------------------------------------------------
(* schedules_collide. *)

\* times_overlap with <= for <.
times_overlap_touching(start1, end1, start2, end2) ==
  start1 <= end2 /\ start2 <= end1

\* Line 141: the overlap test of two slots of the same day.
times_overlap(start1, end1, start2, end2) ==
  start1 < end2 /\ start2 < end1

\* The nested loops of lines 137-143 from slot i of slots1 and slot j of
\* slots2 on: TRUE at the first pair of the same day that overlaps.
RECURSIVE collide_loop(_, _, _, _)
collide_loop(slots_a, slots_b, i, j) ==
  IF i > Len(slots_a) THEN FALSE
  ELSE IF j > Len(slots_b) THEN collide_loop(slots_a, slots_b, i + 1, 1)
  ELSE IF /\ slots_a[i].day = slots_b[j].day
          /\ times_overlap(slots_a[i].start, slots_a[i].end,
                           slots_b[j].start, slots_b[j].end)
       THEN TRUE
       ELSE collide_loop(slots_a, slots_b, i, j + 1)

collide_parsed(p1, p2) ==
  IF p1.raised \/ p2.raised
  THEN [raised |-> TRUE, value |-> FALSE]
  ELSE [raised |-> FALSE, value |-> collide_loop(p1.results, p2.results, 1, 1)]

\* schedules_collide(schedule1, schedule2): raised is whether a ValueError
\* of parse_schedule passed through it, value what it returned otherwise.
schedules_collide(s1, s2) ==
  collide_parsed(parse_schedule(s1), parse_schedule(s2))

----------------------------------------------------------------------------
(* signup_for_activity. *)

\* email in participants
InList(email, participants) ==
  \E i \in 1..Len(participants) : participants[i] = email

\* An HTTP response: the status code and what the detail (or, for 200, the
\* message) is built from. The texts of lines 166 and 171 are f-strings of
\* the email, the activity name and, for a collision, the other activity's
\* name.
Response(status, text, email, activity_name, other_name) ==
  [status |-> status, text |-> text, email |-> email,
   activity_name |-> activity_name, other_name |-> other_name]

NoResponse ==
  Response(0, "", "", "", "")

NoRequest ==
  [activity_name |-> "", email |-> ""]

NoCollision ==
  [raised |-> FALSE, other_name |-> ""]

\* Lines 162-167 for one other activity: c is what schedules_collide gave,
\* rest what the remaining iterations give.
scan_outcome(c, other_name, rest) ==
  IF c.raised THEN [raised |-> TRUE, other_name |-> other_name]
  ELSE IF c.value THEN [raised |-> FALSE, other_name |-> other_name]
  ELSE rest

\* Lines 160-163: activities other than the target that do not list the
\* email are skipped without a call of schedules_collide.
\* schedules_collide is a pure function of its two texts: its outcome on
\* each pair of schedule texts of the seed directory is computed once, and
\* on any other pair when asked.
SeedSchedules ==
  {SeedActivities[n].schedule : n \in DOMAIN SeedActivities}

SeedCollisions ==
  [pair \in SeedSchedules \X SeedSchedules |->
     schedules_collide(pair[1], pair[2])]

collide_call(s1, s2) ==
  IF <<s1, s2>> \in DOMAIN SeedCollisions
  THEN SeedCollisions[<<s1, s2>>]
  ELSE schedules_collide(s1, s2)

check_other(acts, activity_name, email, other_name) ==
  IF other_name # activity_name /\ InList(email, acts[other_name].participants)
  THEN collide_call(acts[activity_name].schedule, acts[other_name].schedule)
  ELSE [raised |-> FALSE, value |-> FALSE]

\* Lines 159-167 from the i-th key of the directory on: the name of the first
\* other activity that lists the email and whose schedule collides with the
\* target's ("" when there is none); raised when schedules_collide raised.
RECURSIVE collision_scan(_, _, _, _)
collision_scan(acts, activity_name, email, i) ==
  IF i > Len(ActivityOrder) THEN NoCollision
  ELSE scan_outcome(check_other(acts, activity_name, email, ActivityOrder[i]),
                    ActivityOrder[i],
                    collision_scan(acts, activity_name, email, i + 1))

\* after_scan without the collision response.
after_scan_ignoring_collision(scan, activity_name, email) ==
  IF scan.raised
  THEN Response(500, "Internal Server Error", "", "", "")
  ELSE Response(200, "Signed up", email, activity_name, "")

\* Lines 164-171 once the loop has run: the collision response, or success.
after_scan(scan, activity_name, email) ==
  IF scan.raised
  THEN Response(500, "Internal Server Error", "", "", "")
  ELSE IF scan.other_name # ""
  THEN Response(400, "Impossible d'inscrire : les horaires chevauchent",
                email, activity_name, scan.other_name)
  ELSE Response(200, "Signed up", email, activity_name, "")

\* signup_guards with the collision loop before the duplicate check.
signup_guards_collision_first(acts, activity_name, email) ==
  IF activity_name \notin DOMAIN acts
  THEN Response(404, "Activity not found", "", "", "")
  ELSE IF collision_scan(acts, activity_name, email, 1).other_name # ""
  THEN after_scan(collision_scan(acts, activity_name, email, 1),
                  activity_name, email)
  ELSE IF InList(email, acts[activity_name].participants)
  THEN Response(400, "Student already signed up for this activity", "", "", "")
  ELSE Response(200, "Signed up", email, activity_name, "")

\* signup_guards without the duplicate check of lines 155-156.
signup_guards_no_duplicate_check(acts, activity_name, email) ==
  IF activity_name \notin DOMAIN acts
  THEN Response(404, "Activity not found", "", "", "")
  ELSE after_scan(collision_scan(acts, activity_name, email, 1),
                  activity_name, email)

\* signup_guards with a capacity check after the duplicate check.
signup_guards_with_capacity(acts, activity_name, email) ==
  IF activity_name \notin DOMAIN acts
  THEN Response(404, "Activity not found", "", "", "")
  ELSE IF InList(email, acts[activity_name].participants)
  THEN Response(400, "Student already signed up for this activity", "", "", "")
  ELSE IF Len(acts[activity_name].participants)
            >= acts[activity_name].max_participants
  THEN Response(400, "Activity is full", "", "", "")
  ELSE after_scan(collision_scan(acts, activity_name, email, 1),
                  activity_name, email)

\* Lines 150-167, the guards of a signup: the error response of the first
\* guard that fails, or status 200 when all pass. An unhandled ValueError
\* is the framework's 500.
signup_guards(acts, activity_name, email) ==
  IF activity_name \notin DOMAIN acts
  THEN Response(404, "Activity not found", "", "", "")
  ELSE IF InList(email, acts[activity_name].participants)
  THEN Response(400, "Student already signed up for this activity", "", "", "")
  ELSE after_scan(collision_scan(acts, activity_name, email, 1),
                  activity_name, email)

\* add_student with insert(0, email) for append(email).
add_student_in_front(acts, activity_name, email) ==
  [acts EXCEPT ![activity_name].participants = <<email>> \o @]

\* Line 170: activity["participants"].append(email)
add_student(acts, activity_name, email) ==
  [acts EXCEPT ![activity_name].participants = Append(@, email)]

\* Lines 169-171 when the guards gave r, nothing when they raised.
finish_signup(acts, activity_name, email, r) ==
  [response |-> r,
   activities |-> IF r.status = 200
                  THEN add_student(acts, activity_name, email)
                  ELSE acts]

\* signup_for_activity(activity_name, email) on the directory acts: the
\* response and the directory after it.
signup_for_activity(acts, activity_name, email) ==
  finish_signup(acts, activity_name, email,
                signup_guards(acts, activity_name, email))

----------------------------------------------------------------------------
(* Requests. *)

\* Emails of students not in the seed directory.
NewEmails ==
  << "new1@mergington.edu", "new2@mergington.edu", "new3@mergington.edu",
     "new4@mergington.edu", "new5@mergington.edu", "new6@mergington.edu",
     "new7@mergington.edu", "new8@mergington.edu", "new9@mergington.edu",
     "new10@mergington.edu", "new11@mergington.edu", "new12@mergington.edu" >>

ActivityNames ==
  {ActivityOrder[i] : i \in 1..Len(ActivityOrder)}

\* The activity names requests ask for: the nine of the directory and one
\* that is not in it.
RequestNames ==
  ActivityNames \cup {"Robotics Club"}

\* The emails requests ask for in the main specification: two seeded
\* students and one new one.
RequestEmails ==
  {"john@mergington.edu", "emma@mergington.edu", NewEmails[1]}

\* The number of emails appended to the seed directory so far.
RECURSIVE SumLen(_, _)
SumLen(acts, names) ==
  IF names = {} THEN 0
  ELSE LET n == CHOOSE x \in names : TRUE
       IN  Len(acts[n].participants) + SumLen(acts, names \ {n})

Appended ==
  SumLen(activities, ActivityNames) - SumLen(SeedActivities, ActivityNames)

----------------------------------------------------------------------------
(* The server handling one request at a time. *)

\* The threads of the server's pool that handle requests.
Workers ==
  {"w1", "w2"}

IdleWorkers ==
  /\ serial = TRUE
  /\ wpc = [w \in Workers |-> "idle"]
  /\ wreq = [w \in Workers |-> NoRequest]

IdleFunctions ==
  /\ schedule1 = << >>
  /\ schedule2 = << >>
  /\ shape1 = << >>
  /\ slots1 = << >>
  /\ slots2 = << >>
  /\ collides12 = << >>
  /\ collides11 = << >>
  /\ ppc = "off"

Init ==
  /\ activities = SeedActivities
  /\ request = NoRequest
  /\ response = NoResponse
  /\ IdleWorkers
  /\ IdleFunctions

\* POST /activities/{activity_name}/signup?email=...
Respond(activity_name, email, r) ==
  /\ activities' = r.activities
  /\ request' = [activity_name |-> activity_name, email |-> email]
  /\ response' = r.response

Signup(activity_name, email) ==
  /\ Respond(activity_name, email,
             signup_for_activity(activities, activity_name, email))
  /\ UNCHANGED <<workerVars, funVars>>

Next ==
  /\ Appended < MaxSignups
  /\ \E activity_name \in RequestNames, email \in RequestEmails :
       Signup(activity_name, email)

Spec ==
  Init /\ [][Next]_vars

----------------------------------------------------------------------------
(* Signups beyond an activity's capacity: new students sign up one after   *)
(* the other. Which new email comes first does not matter to the handler,  *)
(* so the new emails are taken in the order of NewEmails: a request names  *)
(* a new email already in the directory or the next one.                   *)

CapNames ==
  {"Art Workshop", "Robotics Club"}

\* The number of new emails in the directory.
Introduced ==
  Cardinality({i \in 1..Len(NewEmails) :
                 \E n \in DOMAIN activities :
                   InList(NewEmails[i], activities[n].participants)})

\* A student of Art Workshop, one of Programming Class (which collides with
\* it), one of Chess Club (which does not), and the new students.
CapEmails ==
  {"ava@mergington.edu", "emma@mergington.edu", "michael@mergington.edu"}
    \cup {NewEmails[i] : i \in {k \in 1..NumNew : k <= Introduced + 1}}

NextCap ==
  \E activity_name \in CapNames, email \in CapEmails :
    Signup(activity_name, email)

SpecCap ==
  Init /\ [][NextCap]_vars

----------------------------------------------------------------------------
(* Requests handled by two threads. A thread evaluates the guards of       *)
(* lines 150-167 on the directory as it is then, and appends (line 170)    *)
(* in a later step; with serial = TRUE a request starts only when no       *)
(* other is between its guards and its append.                             *)

RaceNames ==
  {"Art Workshop", "Programming Class", "Chess Club", "Robotics Club"}

RaceEmails ==
  {NewEmails[1], "emma@mergington.edu"}

\* The number of threads whose guards passed and whose append is to come.
Pending ==
  Cardinality({w \in Workers : wpc[w] = "append"})

InitRace ==
  /\ activities = SeedActivities
  /\ request = NoRequest
  /\ response = NoResponse
  /\ serial \in BOOLEAN
  /\ wpc = [w \in Workers |-> "idle"]
  /\ wreq = [w \in Workers |-> NoRequest]
  /\ IdleFunctions

\* What follows the guards' outcome r: the error response at once, or the
\* append still to come.
Guarded(w, activity_name, email, r) ==
  IF r.status = 200
  THEN /\ wpc' = [wpc EXCEPT ![w] = "append"]
       /\ wreq' = [wreq EXCEPT ![w] = [activity_name |-> activity_name,
                                       email |-> email]]
       /\ UNCHANGED <<activities, request, response>>
  ELSE /\ request' = [activity_name |-> activity_name, email |-> email]
       /\ response' = r
       /\ UNCHANGED <<activities, wpc, wreq>>

\* Lines 150-167 of one request, by thread w.
CheckGuards(w, activity_name, email) ==
  /\ wpc[w] = "idle"
  /\ serial => \A v \in Workers : wpc[v] = "idle"
  /\ Appended + Pending < MaxRaceSignups
  /\ Guarded(w, activity_name, email,
             signup_guards(activities, activity_name, email))
  /\ UNCHANGED <<serial, funVars>>

\* Lines 170-171 of the request thread w is handling.
AppendStudent(w) ==
  /\ wpc[w] = "append"
  /\ activities' = add_student(activities, wreq[w].activity_name, wreq[w].email)
  /\ request' = wreq[w]
  /\ response' = Response(200, "Signed up", wreq[w].email,
                          wreq[w].activity_name, "")
  /\ wpc' = [wpc EXCEPT ![w] = "idle"]
  /\ wreq' = [wreq EXCEPT ![w] = NoRequest]
  /\ UNCHANGED <<serial, funVars>>

NextRace ==
  \/ \E w \in Workers, activity_name \in RaceNames, email \in RaceEmails :
       CheckGuards(w, activity_name, email)
  \/ \E w \in Workers : AppendStudent(w)

SpecRace ==
  InitRace /\ [][NextRace]_vars

----------------------------------------------------------------------------
(* parse_schedule and schedules_collide on schedule texts written from     *)
(* a day list, a joiner and times.                                         *)

\* Day names a schedule text may list, the fourth not a key of days_map.
DayTokens ==
  << Mondays, Wednesdays, Fridays, Fundays, Tuesdays, Thursdays >>

\* Day lists: up to MaxDays consecutive tokens, from the first or the second.
DayLists ==
  {SubSeq(DayTokens, s, s + n - 1) : s \in 1..2, n \in 1..MaxDays}

TimeOf(h, m, p) ==
  [hour |-> h, minute |-> m, marker |-> p]

\* Times as written: well-formed ones, an hour of 13, and the markers AA
\* and MP, which [APM]{2} accepts.
TimeInputs ==
  { TimeOf(4, 0, PM), TimeOf(5, 0, PM), TimeOf(5, 30, PM), TimeOf(6, 0, PM),
    TimeOf(11, 0, PM), TimeOf(1, 0, AM), TimeOf(12, 0, AM),
    TimeOf(13, 0, PM), TimeOf(4, 0, <<"A", "A">>), TimeOf(4, 0, <<"M", "P">>) }

\* kind: "range" (start - end), "single" (a start and no end), "none" (no
\* time segment at all).
Shapes ==
  [days : DayLists, joiner : {CommaSpace, AndSep}, kind : {"range"},
   start : TimeInputs, end : TimeInputs]
    \cup [days : DayLists, joiner : {CommaSpace, AndSep},
          kind : {"single", "none"},
          start : {TimeOf(4, 0, PM)}, end : {TimeOf(4, 0, PM)}]

\* The second argument of schedules_collide: one day and a time range.
ProbeShapes ==
  [days : {<<Mondays>>, <<Wednesdays>>}, joiner : {CommaSpace},
   kind : {"range"},
   start : {TimeOf(4, 0, PM), TimeOf(5, 0, PM)},
   end : {TimeOf(5, 0, PM), TimeOf(5, 30, PM), TimeOf(6, 0, PM)}]
    \cup [days : {<<Mondays>>}, joiner : {CommaSpace}, kind : {"range", "none"},
          start : {TimeOf(13, 0, PM)}, end : {TimeOf(5, 0, PM)}]

\* str(n) for 0 <= n <= 99.
NumText(n) ==
  IF n < 10 THEN << Digits[n + 1] >>
  ELSE << Digits[(n \div 10) + 1], Digits[(n % 10) + 1] >>

\* The minute as two digits.
MinuteText(m) ==
  << Digits[(m \div 10) + 1], Digits[(m % 10) + 1] >>

TimeText(t) ==
  NumText(t.hour) \o <<":">> \o MinuteText(t.minute) \o <<" ">> \o t.marker

\* sep.join(days)
RECURSIVE Join(_, _)
Join(days, sep) ==
  IF Len(days) = 1 THEN days[1]
  ELSE days[1] \o sep \o Join(Tail(days), sep)

\* The schedule text of a shape.
TextOf(shape) ==
  Join(shape.days, shape.joiner)
    \o (IF shape.kind = "none" THEN << >>
        ELSE CommaSpace \o TimeText(shape.start))
    \o (IF shape.kind = "range" THEN DashSep \o TimeText(shape.end)
        ELSE << >>)

InitFun ==
  /\ activities = SeedActivities
  /\ request = NoRequest
  /\ response = NoResponse
  /\ IdleWorkers
  /\ \E a \in Shapes, b \in ProbeShapes :
       /\ shape1 = a
       /\ schedule1 = TextOf(a)
       /\ schedule2 = TextOf(b)
  /\ slots1 = << >>
  /\ slots2 = << >>
  /\ collides12 = << >>
  /\ collides11 = << >>
  /\ ppc = "start"

\* parse_schedule on each of the two texts.
Parse ==
  /\ ppc = "start"
  /\ slots1' = parse_schedule(schedule1)
  /\ slots2' = parse_schedule(schedule2)
  /\ ppc' = "parsed"
  /\ UNCHANGED <<dirVars, workerVars, schedule1, schedule2, shape1,
                 collides12, collides11>>

\* schedules_collide on the two texts, and on the first with itself.
Collide ==
  /\ ppc = "parsed"
  /\ collides12' = schedules_collide(schedule1, schedule2)
  /\ collides11' = schedules_collide(schedule1, schedule1)
  /\ ppc' = "done"
  /\ UNCHANGED <<dirVars, workerVars, schedule1, schedule2, shape1,
                 slots1, slots2>>

NextFun ==
  \/ Parse
  \/ Collide

SpecFun ==
  InitFun /\ [][NextFun]_vars

----------------------------------------------------------------------------
(* What the claims are stated with. *)

Enrolled(acts, email, name) ==
  InList(email, acts[name].participants)

\* The emails of an activity's participant list.
EmailsOf(acts, name) ==
  {acts[name].participants[i] : i \in 1..Len(acts[name].participants)}

\* How often the email occurs in the activity's participant list.
Occurrences(acts, email, name) ==
  Cardinality({i \in 1..Len(acts[name].participants) :
                 acts[name].participants[i] = email})

\* The day names of the day segments parts[1..k] of a schedule text, each
\* segment a day or an "and"-joined list of days (spec 4.1).
RECURSIVE written_days(_, _)
written_days(parts, k) ==
  IF k = 0 THEN << >>
  ELSE written_days(parts, k - 1) \o split_strip(parts[k], AndSep)

written_parts(parts, time_match) ==
  IF Len(parts) < 2 \/ ~time_match.matched THEN << >>
  ELSE slots_for(written_days(parts, Len(parts) - 1), time_match.groups).results

\* The slots a schedule text occupies under the grammar of spec 4.1: the
\* last ", "-separated segment is the time range, the ones before it are days.
written_slots(text) ==
  written_parts(split(text, CommaSpace),
                re_match_time_range(split(text, CommaSpace)[Len(split(text, CommaSpace))]))

slots_overlap(slots_a, slots_b) ==
  \E i \in 1..Len(slots_a), j \in 1..Len(slots_b) :
    /\ slots_a[i].day = slots_b[j].day
    /\ slots_a[i].start < slots_b[j].end
    /\ slots_b[j].start < slots_a[i].end

\* The other activities that list the email and whose schedule
\* schedules_collide reports as colliding with the target's.
CollidingOthers(acts, name, email) ==
  {o \in DOMAIN acts \ {name} :
     /\ Enrolled(acts, email, o)
     /\ schedules_collide(acts[name].schedule, acts[o].schedule).value}

DuplicateResponse ==
  Response(400, "Student already signed up for this activity", "", "", "")

\* The outcome r of the guards for a request on the directory acts, by the
\* four cases in their order.
OutcomeByOrder(acts, name, email, r) ==
  IF name \notin DOMAIN acts
  THEN r = Response(404, "Activity not found", "", "", "")
  ELSE IF Enrolled(acts, email, name)
  THEN r = DuplicateResponse
  ELSE IF CollidingOthers(acts, name, email) # {}
  THEN /\ r.status = 400
       /\ r # DuplicateResponse
       /\ r.other_name \in CollidingOthers(acts, name, email)
  ELSE r = Response(200, "Signed up", email, name, "")

\* A time as written is well formed: an hour of 1 to 12, a minute, AM or PM.
ValidTime(t) ==
  t.hour \in 1..12 /\ t.minute \in 0..59 /\ t.marker \in {AM, PM}

\* The time of day a well-formed written time denotes, in minutes.
WrittenMinutes(t) ==
  ((t.hour % 12) + (IF t.marker = PM THEN 12 ELSE 0)) * 60 + t.minute

WellFormed(shape) ==
  shape.kind = "range" /\ ValidTime(shape.start) /\ ValidTime(shape.end)

\* The canonical singular of a day name; other text is kept.
Singular(d) ==
  IF d \in {Mondays, Tuesdays, Wednesdays, Thursdays, Fridays, Saturdays, Sundays}
  THEN SubSeq(d, 1, Len(d) - 1)
  ELSE d

\* One slot per written day, in the order written.
ExpectedSlots(shape) ==
  [i \in 1..Len(shape.days) |->
     [day |-> Singular(shape.days[i]),
      start |-> WrittenMinutes(shape.start),
      end |-> WrittenMinutes(shape.end)]]

\* "Mondays, 4:00 PM - 5:00 PM", "Mondays, 5:00 PM - 6:00 PM",
\* "Wednesdays, 4:00 PM - 6:00 PM", "Wednesdays, 5:00 PM - 5:30 PM"
MondaysFourToFive ==
  Mondays \o CommaSpace \o <<"4",":","0","0"," ","P","M">> \o DashSep
    \o <<"5",":","0","0"," ","P","M">>

MondaysFiveToSix ==
  Mondays \o CommaSpace \o <<"5",":","0","0"," ","P","M">> \o DashSep
    \o <<"6",":","0","0"," ","P","M">>

WednesdaysFourToSix ==
  Wednesdays \o CommaSpace \o <<"4",":","0","0"," ","P","M">> \o DashSep
    \o <<"6",":","0","0"," ","P","M">>

WednesdaysFiveToHalfPast ==
  Wednesdays \o CommaSpace \o <<"5",":","0","0"," ","P","M">> \o DashSep
    \o <<"5",":","3","0"," ","P","M">>

----------------------------------------------------------------------------
(* The claims. *)

\* C1: no email is in the participant lists of two distinct activities whose
\* schedules, read as written under the grammar of spec 4.1, share a day on
\* which their time intervals overlap.
C1_NoDoubleBooking ==
  \A a \in DOMAIN activities, b \in DOMAIN activities :
    a # b =>
      \A e \in EmailsOf(activities, a) :
        Enrolled(activities, e, b) =>
          ~slots_overlap(written_slots(activities[a].schedule),
                         written_slots(activities[b].schedule))

\* C2: the guards are evaluated in a fixed order and the first failing one
\* decides: unknown activity gives 404; else a listed email gives the
\* duplicate 400, also when another activity of the email collides with
\* the target; else a colliding other activity gives the 400 naming it;
\* else the guards pass. A thread goes on to append exactly in the last
\* case, and an error response is the one of the first failing guard.
C2_GuardOrder ==
  [][ /\ \A w \in Workers :
           (wpc[w] = "idle" /\ wpc'[w] = "append") =>
             OutcomeByOrder(activities, wreq'[w].activity_name, wreq'[w].email,
                            Response(200, "Signed up", wreq'[w].email,
                                     wreq'[w].activity_name, ""))
      /\ (wpc' = wpc /\ <<request', response'>> # <<request, response>>) =>
           /\ response'.status # 200
           /\ OutcomeByOrder(activities, request'.activity_name,
                             request'.email, response')
    ]_vars

\* A duplicate rejection of a request whose target collides with another
\* activity the email is enrolled in.
C2_Witness ==
  /\ request = [activity_name |-> "Art Workshop", email |-> NewEmails[1]]
  /\ response = DuplicateResponse
  /\ "Programming Class" \in CollidingOthers(activities, "Art Workshop", NewEmails[1])

\* C3: a signup that fails leaves the directory unchanged; a signup that
\* succeeds appends the email at the end of the target's participant list
\* and changes nothing else.
C3_SignupFrame ==
  [][ IF response'.status = 200
      THEN /\ request'.activity_name \in DOMAIN activities
           /\ activities' = [activities EXCEPT
                               ![request'.activity_name].participants =
                                 Append(@, request'.email)]
      ELSE activities' = activities
    ]_vars

\* A failed request after a successful signup for Chess Club.
C3_Witness ==
  /\ activities["Chess Club"].participants
       = << "michael@mergington.edu", "daniel@mergington.edu", NewEmails[1] >>
  /\ response.status = 400

\* C4: every email occurs at most once in each participant list, and right
\* after a successful signup the email occurs exactly once in the target's.
C4_NoDuplicateParticipants ==
  /\ \A n \in DOMAIN activities :
       \A e \in EmailsOf(activities, n) : Occurrences(activities, e, n) = 1
  /\ response.status = 200 =>
       Occurrences(activities, request.email, request.activity_name) = 1

\* A brand-new email has just signed up for Chess Club.
C4_Witness ==
  /\ response.status = 200
  /\ request = [activity_name |-> "Chess Club", email |-> NewEmails[1]]
  /\ Enrolled(activities, NewEmails[1], "Chess Club")

\* C5: a well-formed schedule text listing two or more days, joined by
\* ", " or by " and ", parses to one slot per day in the order written,
\* each with the singular day name and the written start and end time.
C5_MultiDayParsing ==
  (ppc # "start" /\ WellFormed(shape1) /\ Len(shape1.days) >= 2) =>
    slots1 = [raised |-> FALSE, results |-> ExpectedSlots(shape1)]

\* C6: a well-formed schedule text that names at least one day and whose
\* start and end time differ collides with itself.
C6_SelfCollision ==
  (ppc = "done" /\ WellFormed(shape1)
     /\ WrittenMinutes(shape1.start) # WrittenMinutes(shape1.end)) =>
    collides11 = [raised |-> FALSE, value |-> TRUE]

C8_NoCapacityGuard ==
  [][ (/\ request'.activity_name \in DOMAIN activities
       /\ Len(activities[request'.activity_name].participants)
            >= activities[request'.activity_name].max_participants
       /\ ~Enrolled(activities, request'.email, request'.activity_name)
       /\ CollidingOthers(activities, request'.activity_name, request'.email) = {})
      => /\ response'.status = 200
         /\ Len(activities'[request'.activity_name].participants)
              = Len(activities[request'.activity_name].participants) + 1
    ]_vars

\* Art Workshop holds more participants than max_participants.
C8_Witness ==
  /\ Len(activities["Art Workshop"].participants)
       > activities["Art Workshop"].max_participants
  /\ response.status = 200
  /\ request.activity_name = "Art Workshop"

\* C9: parse_schedule never raises, a text whose time segment is not a
\* well-formed range parses to the empty list, and schedules_collide with
\* such a text returns false.
C9_MalformedNeverRaises ==
  /\ ppc # "start" =>
       /\ ~slots1.raised
       /\ ~WellFormed(shape1) => slots1.results = << >>
  /\ (ppc = "done" /\ ~WellFormed(shape1)) =>
       collides12 = [raised |-> FALSE, value |-> FALSE]

\* C10: with requests handled one at a time no email is twice in a list
\* and no email is in two activities that collide; and a thread whose
\* guards have passed appends whatever the directory holds by then.
C10_OnlySerialIsSafe ==
  /\ [](serial =>
          \A n \in DOMAIN activities :
            \A e \in EmailsOf(activities, n) :
              /\ Occurrences(activities, e, n) = 1
              /\ CollidingOthers(activities, n, e) = {})
  /\ [][ \A w \in Workers :
           (wpc[w] = "append" /\ wpc'[w] = "idle") =>
             /\ response'.status = 200
             /\ activities'[wreq[w].activity_name].participants
                  = Append(activities[wreq[w].activity_name].participants,
                           wreq[w].email)
       ]_vars

\* Interleaved requests have put the new email twice into Chess Club and
\* into both Art Workshop and Programming Class, which collide.
C10_Witness ==
  /\ serial = FALSE
  /\ Occurrences(activities, NewEmails[1], "Chess Club") = 2
  /\ Enrolled(activities, NewEmails[1], "Art Workshop")
  /\ "Programming Class" \in CollidingOthers(activities, "Art Workshop", NewEmails[1])

====
